---- MODULE Spec2Model ----
(***************************************************************************)
(* Model of the authentication / session subsystem of redcrew_test:        *)
(* register, login, logout, refresh and current-user resolution            *)
(* (src/src/auth), the JWT codec (src/src/auth/security/token_manager.py)  *)
(* and the two tables they use (src/src/database/models/user.py), with    *)
(* the travel-project and place routes (src/src/travel) behind them.       *)
(*                                                                         *)
(* Every request runs in its own database session (get_db), i.e. its own   *)
(* transaction on the PostgreSQL engine of src/src/database/engine.py,     *)
(* which is created without an isolation level and so runs READ COMMITTED: *)
(* a statement sees the rows committed when it starts, a DELETE waits for  *)
(* an uncommitted DELETE of the same row and then skips the row, and rows  *)
(* inserted by a transaction are visible to others only after its commit.  *)
(* Requests interleave at their awaits (one action per awaited statement). *)
(*                                                                         *)
(* Time is counted in ticks of 1/TicksPerSecond second.  The JWT "exp"     *)
(* claim is in whole seconds (python-jose truncates the datetime), the     *)
(* expires_at column keeps the sub-second part.                            *)
(***************************************************************************)
EXTENDS Integers, FiniteSets, Sequences, TLC

VARIABLES
    now,             \* wall clock, in ticks
    ticks,           \* number of clock advances so far (bounds the model)
    users,           \* committed rows of table "users"
    next_user_id,    \* sequence behind users.id
    refresh_tokens,  \* committed rows of table "refresh_tokens"
    next_token_id,   \* sequence behind refresh_tokens.id
    pc,              \* per request slot: where its handler stands
    req,             \* per request slot: the request being served
    txn,             \* per request slot: the session's uncommitted work
    issued,          \* token pairs handed to callers by successful logins
    alone,           \* per request slot: no other request for the same
                     \* account has run since this one began
    last,            \* the request that has just ended, with its response
    projects,        \* committed rows of table "travel_projects"
    places,          \* committed rows of table "places"
    next_project_id, \* sequence behind travel_projects.id
    next_place_id,   \* sequence behind places.id
    minted           \* tokens made by direct calls of the codec

vars == <<now, ticks, users, next_user_id, refresh_tokens, next_token_id,
          pc, req, txn, issued, alone, last,
          projects, places, next_project_id, next_place_id, minted>>

\* what the account operations never touch
resources == <<projects, places, next_project_id, next_place_id, minted>>

(* ------------------------------ bounds -------------------------------- *)

MaxTicks == 2
MaxUserId == 2
MaxTokenId == 3
TicksPerSecond == 2
MaxProjectId == 2
MaxPlaceId == 2
MaxBodyPlaces == 2
MaxMinted == 1

Procs == {"r1", "r2"}
Emails == {"a@x.com", "A@x.com", "b@x.com", "nobody@x.com"}
Passwords == {"Str0ng!pw", "Oth3r!pw"}
Salts == {"s1", "s2"}

(* --------------------------- configuration ---------------------------- *)

REFRESH_TOKEN_DAYS == 7
ACCESS_KEY_TIMEDELTA_MINUTES == 60
SECRET_KEY_ACCESS == "access"
SECRET_KEY_REFRESH == "refresh"

\* timedelta(minutes=...) and timedelta(days=...), in seconds
AccessDelta == ACCESS_KEY_TIMEDELTA_MINUTES * 60
RefreshDelta == REFRESH_TOKEN_DAYS * 24 * 60 * 60

\* the whole second a clock reading lies in
Sec(t) == t \div TicksPerSecond

None == [none |-> TRUE]

\* a call that raised `exc`, and a call that returned `value`
Raise(exc) == [ok |-> FALSE, exc |-> exc, value |-> None]
Ok(value) == [ok |-> TRUE, exc |-> "", value |-> value]

(* ------------------------------ schemas ------------------------------- *)

\* str.lower() on the addresses of the model
Lower(e) == IF e = "A@x.com" THEN "a@x.com" ELSE e

\* variant of the validator that keeps the address as typed
validate_corporate_email_keep_case(v) == v

\* UserCreateSchema.validate_corporate_email: the stored address
validate_corporate_email(v) == Lower(v)

(* --------------------------- password hasher -------------------------- *)

\* bcrypt.hashpw(password, salt): the digest carries its salt
hash_password(password, salt) == [salt |-> salt, digest |-> <<salt, password>>]

\* a stored value that is no bcrypt digest
Malformed == [salt |-> "", digest |-> <<"not-a-hash">>]

\* bcrypt.checkpw: re-hash with the digest's salt and compare; ValueError
\* ("Invalid salt") when the stored value is no digest
bcrypt_checkpw(password, hashed_password) ==
    IF hashed_password.salt \notin Salts THEN Raise("ValueError")
    ELSE Ok(hash_password(password, hashed_password.salt) = hashed_password)

\* verify_password: except (ValueError, TypeError): return False
verify_password(plain_password, hashed_password) ==
    LET r == bcrypt_checkpw(plain_password, hashed_password) IN
    IF r.ok THEN r.value ELSE FALSE

check_password(user, password) == verify_password(password, user.hashed_password)

(* ----------------------------- token codec ---------------------------- *)

\* jwt.encode(data + exp, secret_key): the token is a function of the
\* claims, the whole-second expiry and the signing key, nothing else
create_token(data, secret_key, expires_delta) ==
    [key |-> secret_key, user_id |-> data.user_id, email |-> data.email,
     exp |-> Sec(now) + expires_delta]

\* JWTAuthManager._ACCESS_KEY_TIMEDELTA_MINUTES and
\* JWTAuthManager._REFRESH_KEY_TIMEDELTA_MINUTES, in seconds
DefaultAccessDelta == 60 * 60
DefaultRefreshDelta == (60 * 24 * 7) * 60

\* `expires_delta or default`: timedelta(0) is falsy, as None is
or_default(expires_delta, default) ==
    IF expires_delta = 0 THEN default ELSE expires_delta

create_access_token(data, expires_delta) ==
    create_token(data, SECRET_KEY_ACCESS,
                 or_default(expires_delta, DefaultAccessDelta))

create_refresh_token(data, expires_delta) ==
    create_token(data, SECRET_KEY_REFRESH,
                 or_default(expires_delta, DefaultRefreshDelta))

\* variant of jwt.decode that skips the exp claim
jwt_decode_ignoring_exp(token, secret_key) ==
    IF token.key # secret_key THEN Raise("JWTError")
    ELSE Ok([user_id |-> token.user_id, email |-> token.email])

\* jwt.decode: the signature first, then the exp claim against the clock
jwt_decode(token, secret_key) ==
    IF token.key # secret_key THEN Raise("JWTError")
    ELSE IF token.exp < Sec(now) THEN Raise("ExpiredSignatureError")
    ELSE Ok([user_id |-> token.user_id, email |-> token.email])

decode_token(token, secret_key) ==
    LET r == jwt_decode(token, secret_key) IN
    IF r.ok THEN r
    ELSE IF r.exc = "ExpiredSignatureError" THEN Raise("TokenExpiredError")
    ELSE Raise("InvalidTokenError")

\* variant that checks access tokens against the refresh key
decode_access_token_shared_key(token) ==
    decode_token(token, SECRET_KEY_REFRESH)

decode_access_token(token) == decode_token(token, SECRET_KEY_ACCESS)

decode_refresh_token(token) == decode_token(token, SECRET_KEY_REFRESH)

(* ----------------------------- exceptions ----------------------------- *)

BaseUserException ==
    {"UserNotFoundException", "UserAreLoggedOutException",
     "UserCreateException", "UserAlreadyExistsException"}

BaseSecurityException ==
    {"TokenExpiredError", "InvalidTokenError", "PasswordChangeError",
     "InvalidRefreshTokenError", "SessionExpiredError"}

\* str(err): __init__ is called without details, so the base class's text
StrErr(exc) ==
    IF exc \in BaseUserException
    THEN "Something went wrong during account operation"
    ELSE "Something went wrong during security operation"

Response(status, exc, detail) ==
    [status |-> status, exc |-> exc, detail |-> detail,
     access_token |-> None, refresh_token |-> None, auth |-> None]

\* an exception no route catches, and no handler is registered for
Unhandled(exc) == Response(500, exc, "Internal Server Error")

(* ------------------------------- routes ------------------------------- *)

\* auth_router.register: except BaseUserException -> 400, str(err)
register_route(exc) ==
    IF exc \in BaseUserException THEN Response(400, exc, StrErr(exc))
    ELSE Unhandled(exc)

\* auth_router.login: except (BaseUserException, BaseSecurityException)
login_route(exc) ==
    IF exc \in BaseUserException \cup BaseSecurityException
    THEN Response(400, exc, "Incorrect email or password")
    ELSE Unhandled(exc)

\* auth_router.logout: except BaseUserException -> 400, str(err); the
\* exceptions of the get_current_user dependency are raised before the
\* route body runs and pass no except clause
logout_route(exc) ==
    IF exc \in BaseUserException THEN Response(400, exc, StrErr(exc))
    ELSE Unhandled(exc)

\* auth_router.refresh: except BaseUserException -> 401, str(err)
refresh_route(exc) ==
    IF exc \in BaseUserException THEN Response(401, exc, StrErr(exc))
    ELSE Unhandled(exc)

(* ------------------------------ the store ----------------------------- *)

\* select(UserModel).where(UserModel.email == email), scalar_one_or_none();
\* users.email is unique, so at most one row matches
get_user_by_email(email) ==
    LET rows == {u \in users : u.email = email} IN
    IF rows = {} THEN None ELSE CHOOSE u \in rows : TRUE

\* the rows of refresh_tokens a user owns (UserModel.refresh_tokens)
TokensOf(user_id) == {r \in refresh_tokens : r.user_id = user_id}

RowIds(rows) == {r.id : r \in rows}

\* RefreshTokenModel.create: expires_at from the clock, at full resolution;
\* the id is assigned by the sequence when the row is flushed
RefreshTokenModel_create(user_id, token) ==
    [id |-> 0, token |-> token,
     expires_at |-> now + REFRESH_TOKEN_DAYS * 24 * 60 * 60 * TicksPerSecond,
     user_id |-> user_id]

\* rows a slot's transaction has deleted and not yet committed: other
\* transactions' DELETEs of these rows wait
Locks(q) == IF pc[q] = "login_commit" THEN txn[q].deleted ELSE {}

Blocked(p, ids) == \E q \in Procs \ {p} : Locks(q) \cap ids # {}

(* ------------------------- current-user resolution -------------------- *)

\* variant of get_current_user that does not look at the refresh tokens
get_current_user_without_session(token) ==
    LET user_data == decode_access_token(token) IN
    IF ~user_data.ok THEN Raise(user_data.exc)
    ELSE LET rows == {u \in users : u.id = user_data.value.user_id} IN
         IF rows = {} THEN Raise("UserNotFoundException")
         ELSE Ok([type |-> "int", id |-> (CHOOSE u \in rows : TRUE).id])

\* get_current_user: decode, load the user with its refresh tokens, and
\* return auth_user.id, an int
get_current_user(token) ==
    LET user_data == decode_access_token(token) IN
    IF ~user_data.ok THEN Raise(user_data.exc)
    ELSE LET rows == {u \in users : u.id = user_data.value.user_id} IN
         IF rows = {} THEN Raise("UserNotFoundException")
         ELSE LET auth_user == CHOOSE u \in rows : TRUE IN
              IF TokensOf(auth_user.id) = {}
              THEN Raise("UserAreLoggedOutException")
              ELSE Ok([type |-> "int", id |-> auth_user.id])

(* -------------------------------- logout ------------------------------ *)

\* logout_user builds its statement from auth_user.id; an int has no
\* attribute "id", so with the value get_current_user returns the
\* statement is never built
logout_user(auth_user) ==
    IF auth_user.type = "int" THEN Raise("AttributeError")
    ELSE Ok(refresh_tokens \ TokensOf(auth_user.id))

(* -------------------------------- refresh ----------------------------- *)

\* variant of the success path that spends the presented record
refresh_return_rotating(row) == {r \in refresh_tokens : r.id # row}

\* the committed table after refresh_token has returned a new access
\* token: the SELECT is the only statement the success path executes
refresh_return(row) == refresh_tokens

\* variant that issues every new access token for the first account
refresh_token_data_first_account(payload) ==
    [user_id |-> 1, email |-> payload.email]

\* the claims of the new access token: user_id and email as the decoded
\* payload of the presented token carries them
refresh_token_data(payload) ==
    [user_id |-> payload.user_id, email |-> payload.email]

\* refresh_token up to its first return, raise or await:
\* the lookup by token string, the decode and the new access token
refresh_token(token) ==
    LET rows == {r \in refresh_tokens : r.token = token} IN
    IF rows = {} THEN [next |-> "raise", exc |-> "InvalidRefreshTokenError"]
    ELSE IF Cardinality(rows) > 1
    THEN [next |-> "raise", exc |-> "MultipleResultsFound"]
    ELSE LET db_token == CHOOSE r \in rows : TRUE
             payload == decode_refresh_token(token) IN
         IF ~payload.ok THEN [next |-> "delete", row |-> db_token.id]
         ELSE IF payload.value.user_id = 0 \/ payload.value.email = ""
         THEN [next |-> "raise", exc |-> "InvalidRefreshTokenError"]
         ELSE [next |-> "return", row |-> db_token.id,
               access_token |->
                   create_access_token(refresh_token_data(payload.value),
                                       AccessDelta)]

(* --------------------------------- login ------------------------------ *)

\* variant of the credential check that tells a wrong password apart
login_check_distinct(email, password) ==
    LET user == get_user_by_email(email) IN
    IF user = None THEN Raise("UserNotFoundException")
    ELSE IF ~check_password(user, password) THEN Raise("PasswordChangeError")
    ELSE Ok(user)

\* login_user's credential check
login_check(email, password) ==
    LET user == get_user_by_email(email) IN
    IF user = None \/ ~check_password(user, password)
    THEN Raise("UserNotFoundException")
    ELSE Ok(user)

\* variant of the DELETE without its WHERE clause
login_delete_all(user_id) == RowIds(refresh_tokens)

\* delete(RefreshTokenModel).where(RefreshTokenModel.user_id == user.id):
\* the rows the statement matches
login_delete(user_id) == RowIds(TokensOf(user_id))

\* variant of login_user that deletes the records of the named account
\* before it checks the password
login_refused_after_delete(email) ==
    {r \in refresh_tokens :
        \A u \in users : u.email = email => r.user_id # u.id}

\* the committed table after login_user has raised UserNotFoundException:
\* the SELECT is the only statement it has executed
login_refused(email) == refresh_tokens

\* login_user between the DELETE and the commit: both tokens and the
\* pending refresh row
login_issue(user) ==
    LET token_data == [user_id |-> user.id, email |-> user.email]
        access_token == create_access_token(token_data, AccessDelta)
        refresh == create_refresh_token(token_data, RefreshDelta) IN
    [access_token |-> access_token, refresh_token |-> refresh,
     db_token |-> RefreshTokenModel_create(user.id, refresh)]

\* variant of the commit in which the pending row is not flushed
login_commit_unflushed(deleted, db_token) ==
    {r \in refresh_tokens : r.id \notin deleted}

\* variant of the commit in which the DELETE is lost
login_commit_append(deleted, db_token) ==
    refresh_tokens \cup {[db_token EXCEPT !.id = next_token_id]}

\* the committed table after login_user's commit: the rows its DELETE
\* removed are gone, the flushed row is in
login_commit(deleted, db_token) ==
    {r \in refresh_tokens : r.id \notin deleted}
        \cup {[db_token EXCEPT !.id = next_token_id]}

(* ------------------------------ requests ------------------------------ *)

NoReq == [op |-> "none", email |-> "", password |-> "", token |-> None,
          uid |-> 0]
NoTxn == [user |-> None, before |-> {}, snapshot |-> {}, deleted |-> {},
          issue |-> None, row |-> 0]

Request(op, email, password, token, uid) ==
    [op |-> op, email |-> email, password |-> password, token |-> token,
     uid |-> uid]

\* tokens a caller can present: those handed out, one signed with a
\* foreign key, and access-key tokens naming an arbitrary account id
Forged == [key |-> "other", user_id |-> 1, email |-> "a@x.com",
           exp |-> 4 * RefreshDelta]
Stray(u) == [key |-> SECRET_KEY_ACCESS, user_id |-> u, email |-> "a@x.com",
             exp |-> 4 * RefreshDelta]
Minted == {m.token : m \in minted}
PresentableAccess ==
    {i.access_token : i \in issued} \cup {Forged}
        \cup {Stray(u) : u \in {1, MaxUserId + 1}} \cup Minted
PresentableRefresh ==
    {i.refresh_token : i \in issued} \cup {Forged} \cup Minted

\* slots whose login may still take a value of the row sequence
LoginsInFlight == {q \in Procs : pc[q] # "idle" /\ req[q].op = "login"}

\* no other slot is serving a request for account uid
AloneNow(p, uid) ==
    \A x \in Procs \ {p} : ~(pc[x] # "idle" /\ req[x].uid = uid)

\* slot p takes a step of a request for account uid: every other slot
\* serving uid loses its flag, and p's own becomes `own`
Touch(p, uid, own) ==
    alone' = [q \in Procs |->
        IF q = p THEN own
        ELSE IF pc[q] # "idle" /\ req[q].uid = uid /\ uid # 0 THEN FALSE
        ELSE alone[q]]

\* the request of slot p ends with response r; the slot is free again.
\* `fault` names the statement of the request the store refused, if any;
\* `before` is what a Login found committed for its account
End(p, request, r, own, fault) ==
    /\ pc' = [pc EXCEPT ![p] = "idle"]
    /\ req' = [req EXCEPT ![p] = NoReq]
    /\ txn' = [txn EXCEPT ![p] = NoTxn]
    /\ last' = [slot |-> p, req |-> request, resp |-> r, alone |-> own,
                deleted |-> txn[p].deleted, before |-> txn[p].before,
                fault |-> fault]
    /\ Touch(p, request.uid, TRUE)

Finish(p, request, r, own) == End(p, request, r, own, "")

\* the request of slot p goes on to its next await
Continue(p, request, at, t, own) ==
    /\ pc' = [pc EXCEPT ![p] = at]
    /\ req' = [req EXCEPT ![p] = request]
    /\ txn' = [txn EXCEPT ![p] = t]
    /\ last' = None
    /\ Touch(p, request.uid, own)

\* the users table once Register("a@x.com", "Str0ng!pw") and
\* Register("b@x.com", "Oth3r!pw") have committed
Registered ==
    {[id |-> 1, email |-> "a@x.com",
      hashed_password |-> hash_password("Str0ng!pw", "s1")],
     [id |-> 2, email |-> "b@x.com",
      hashed_password |-> hash_password("Oth3r!pw", "s2")]}

Sessions ==
    /\ now = 0
    /\ ticks = 0
    /\ refresh_tokens = {}
    /\ next_token_id = 1
    /\ pc = [p \in Procs |-> "idle"]
    /\ req = [p \in Procs |-> NoReq]
    /\ txn = [p \in Procs |-> NoTxn]
    /\ issued = {}
    /\ alone = [p \in Procs |-> TRUE]
    /\ last = None
    /\ projects = {}
    /\ places = {}
    /\ next_project_id = 1
    /\ next_place_id = 1
    /\ minted = {}

\* the empty database
InitEmpty ==
    /\ users = {}
    /\ next_user_id = 1
    /\ Sessions

\* the database with the two accounts of the model registered and no
\* session yet
Init ==
    /\ users = Registered
    /\ next_user_id = MaxUserId + 1
    /\ Sessions

\* the clock advances by a tick at any moment, and by a tick more than the
\* refresh-token lifetime while no request is in flight (a request lasts
\* no longer than the transport's per-request deadline)
Tick ==
    /\ ticks < MaxTicks
    /\ \E d \in {1, RefreshDelta * TicksPerSecond + 1} :
        /\ d > 1 => \A p \in Procs : pc[p] = "idle"
        /\ now' = now + d
    /\ ticks' = ticks + 1
    /\ last' = None
    /\ UNCHANGED <<users, next_user_id, refresh_tokens, next_token_id,
                   pc, req, txn, issued, alone>>
    /\ UNCHANGED resources

(* ------------------------------- register ----------------------------- *)

\* create_new_user up to the commit: the existence check on the
\* normalised address
RegisterSelect(p) ==
    /\ pc[p] = "idle"
    /\ next_user_id <= MaxUserId
    /\ \E e \in Emails, pw \in Passwords :
        LET request == Request("register", validate_corporate_email(e), pw,
                               None, 0) IN
        IF get_user_by_email(request.email) # None
        THEN Finish(p, request,
                    register_route("UserAlreadyExistsException"), TRUE)
        ELSE Continue(p, request, "register_commit", NoTxn, TRUE)
    /\ UNCHANGED <<now, ticks, users, next_user_id, refresh_tokens,
                   next_token_id, issued>>
    /\ UNCHANGED resources

\* create_new_user's commit: the INSERT takes a value of the sequence and
\* fails on the unique index when the address was committed meanwhile
RegisterCommit(p) ==
    /\ pc[p] = "register_commit"
    /\ next_user_id' = next_user_id + 1
    /\ IF get_user_by_email(req[p].email) # None
       THEN /\ Finish(p, req[p], register_route("UserCreateException"), TRUE)
            /\ users' = users
       ELSE \E salt \in Salts :
            LET user == [id |-> next_user_id, email |-> req[p].email,
                         hashed_password |->
                             hash_password(req[p].password, salt)] IN
            /\ users' = users \cup {user}
            /\ Finish(p, req[p],
                      [Response(201, "", "") EXCEPT
                           !.auth = [id |-> user.id, email |-> user.email]],
                      TRUE)
    /\ UNCHANGED <<now, ticks, refresh_tokens, next_token_id, issued>>
    /\ UNCHANGED resources

(* --------------------------------- login ------------------------------ *)

\* login_user: the account lookup and the password check
LoginSelect(p) ==
    /\ pc[p] = "idle"
    /\ next_token_id + Cardinality(LoginsInFlight) <= MaxTokenId
    /\ \E e \in Emails, pw \in Passwords :
        LET r == login_check(e, pw)
            uid == IF r.ok THEN r.value.id ELSE 0
            request == Request("login", e, pw, None, uid) IN
        IF r.ok
        THEN /\ Continue(p, request, "login_delete",
                         [NoTxn EXCEPT !.user = r.value,
                                       !.before = TokensOf(uid)],
                         AloneNow(p, uid))
             /\ refresh_tokens' = refresh_tokens
        ELSE /\ Finish(p, request, login_route(r.exc), TRUE)
             /\ refresh_tokens' = login_refused(e)
    /\ UNCHANGED <<now, ticks, users, next_user_id, next_token_id, issued>>
    /\ UNCHANGED resources

\* the DELETE has removed the rows `deleted`; login_user goes on to issue
\* the tokens and to add the new row to the session
LoginDeleted(p, deleted) ==
    Continue(p, req[p], "login_commit",
             [txn[p] EXCEPT !.deleted = deleted,
                            !.issue = login_issue(txn[p].user)],
             alone[p])

\* delete(RefreshTokenModel).where(user_id == user.id) starts: it sees the
\* rows committed now, and waits when one of them is being deleted
LoginDelete(p) ==
    /\ pc[p] = "login_delete"
    /\ LET snapshot == login_delete(txn[p].user.id) IN
       IF Blocked(p, snapshot)
       THEN Continue(p, req[p], "login_wait",
                     [txn[p] EXCEPT !.snapshot = snapshot], alone[p])
       ELSE LoginDeleted(p, snapshot)
    /\ UNCHANGED <<now, ticks, users, next_user_id, refresh_tokens,
                   next_token_id, issued>>
    /\ UNCHANGED resources

\* the waiting DELETE goes on once the other transaction has ended: it
\* removes the rows of its snapshot that still exist, and no row that was
\* committed after it started
LoginResume(p) ==
    /\ pc[p] = "login_wait"
    /\ ~Blocked(p, txn[p].snapshot)
    /\ LoginDeleted(p, txn[p].snapshot \cap RowIds(refresh_tokens))
    /\ UNCHANGED <<now, ticks, users, next_user_id, refresh_tokens,
                   next_token_id, issued>>
    /\ UNCHANGED resources

\* db.commit(): the new row is flushed and the transaction committed
LoginCommit(p) ==
    /\ pc[p] = "login_commit"
    /\ LET i == txn[p].issue IN
       /\ refresh_tokens' = login_commit(txn[p].deleted, i.db_token)
       /\ issued' = issued \cup
              {[rid |-> next_token_id, user_id |-> txn[p].user.id,
                access_token |-> i.access_token,
                refresh_token |-> i.refresh_token]}
       /\ Finish(p, req[p],
                 [Response(200, "", "bearer") EXCEPT
                      !.access_token = i.access_token,
                      !.refresh_token = i.refresh_token],
                 alone[p])
    /\ next_token_id' = next_token_id + 1
    /\ UNCHANGED <<now, ticks, users, next_user_id>>
    /\ UNCHANGED resources

(* -------------------------------- logout ------------------------------ *)

\* POST /logout: the get_current_user dependency, then logout_user; an
\* exception of the dependency reaches no except clause of the route
Logout(p) ==
    /\ pc[p] = "idle"
    /\ \E token \in PresentableAccess :
        LET auth == get_current_user(token)
            out == IF auth.ok THEN logout_user(auth.value) ELSE auth
            request == Request("logout", "", "", token, token.user_id) IN
        /\ refresh_tokens' = IF out.ok THEN out.value ELSE refresh_tokens
        /\ Finish(p, request,
                  [(IF ~auth.ok THEN Unhandled(auth.exc)
                    ELSE IF ~out.ok THEN logout_route(out.exc)
                    ELSE Response(200, "",
                             "Successfully logged out from all devices"))
                   EXCEPT !.auth = auth],
                  AloneNow(p, token.user_id))
    /\ UNCHANGED <<now, ticks, users, next_user_id, next_token_id, issued>>
    /\ UNCHANGED resources

(* -------------------------------- refresh ----------------------------- *)

\* POST /refresh up to the first await after the lookup
RefreshSelect(p) ==
    /\ pc[p] = "idle"
    /\ \E token \in PresentableRefresh :
        LET r == refresh_token(token)
            own == AloneNow(p, token.user_id)
            request == Request("refresh", "", "", token, token.user_id) IN
        CASE r.next = "raise" ->
               /\ Finish(p, request, refresh_route(r.exc), own)
               /\ refresh_tokens' = refresh_tokens
          [] r.next = "delete" ->
               /\ Continue(p, request, "refresh_delete",
                           [NoTxn EXCEPT !.row = r.row], own)
               /\ refresh_tokens' = refresh_tokens
          [] r.next = "return" ->
               /\ Finish(p, request,
                         [Response(200, "", "") EXCEPT
                              !.access_token = r.access_token],
                         own)
               /\ refresh_tokens' = refresh_return(r.row)
    /\ UNCHANGED <<now, ticks, users, next_user_id, next_token_id, issued>>
    /\ UNCHANGED resources

\* db.delete(db_token); db.commit(); raise InvalidRefreshTokenError: the
\* DELETE by primary key waits for an uncommitted DELETE of the row and
\* matches nothing when the row is gone
RefreshDelete(p) ==
    /\ pc[p] = "refresh_delete"
    /\ ~Blocked(p, {txn[p].row})
    /\ refresh_tokens' = {r \in refresh_tokens : r.id # txn[p].row}
    /\ Finish(p, req[p], refresh_route("InvalidRefreshTokenError"), alone[p])
    /\ UNCHANGED <<now, ticks, users, next_user_id, next_token_id, issued>>
    /\ UNCHANGED resources

(* ------------------------- projects and places ------------------------ *)

\* the literal 10 of create_project and add_place_to_project
PlaceLimit == 10

\* external ids a caller may send, and those the catalogue answers 200 for
ExternalIds == {"e1", "e2", "bad"}
Names == {"n1", "n2"}

\* the places of a project that is one place short of the limit
Seed == <<"s1", "s2", "s3", "s4", "s5", "s6", "s7", "s8", "s9">>

Range(seq) == {seq[i] : i \in 1..Len(seq)}

Catalogue == {"e1", "e2"} \cup Range(Seed)

\* validate_external_place when the catalogue is reachable
validate_external_place(external_id) == external_id \in Catalogue

\* TravelProjectModel.places
PlacesOf(project_id) == {x \in places : x.project_id = project_id}

\* _get_project_by_id with its places loaded
get_project_by_id(project_id) ==
    LET rows == {x \in projects : x.id = project_id} IN
    IF rows = {} THEN Raise("ProjectDoesNotExistError")
    ELSE Ok([project |-> CHOOSE x \in rows : TRUE,
             places |-> PlacesOf(project_id)])

\* get_place_by_id
get_place_by_id(place_id) ==
    LET rows == {x \in places : x.id = place_id} IN
    IF rows = {} THEN Raise("PlaceDoesNotExistError")
    ELSE Ok(CHOOSE x \in rows : TRUE)

\* create_project before it builds the rows: the checks on the places of
\* the body, in the code's order; `up` tells whether the catalogue answers
create_project_check(project_data, up) ==
    LET ids == project_data.places IN
    IF ids = <<>> THEN Ok(ids)
    ELSE IF Len(ids) > PlaceLimit THEN Raise("ProjectLimitReachedError")
    ELSE IF Len(ids) # Cardinality(Range(ids))
    THEN Raise("PlaceAlreadyExistsInProjectError")
    ELSE IF ~up THEN Raise("HTTPException")
    ELSE IF \E i \in 1..Len(ids) : ~validate_external_place(ids[i])
    THEN Raise("InvalidExternalPlaceError")
    ELSE Ok(ids)

\* PlaceModel(**place.model_dump(), project_id=...) once flushed
PlaceModel(id, project_id, external_id) ==
    [id |-> id, project_id |-> project_id, external_id |-> external_id,
     is_visited |-> FALSE]

\* add_place_to_project between the SELECT and the commit: the checks on
\* the places the SELECT returned
add_place_check(existing_places, external_id) ==
    IF Cardinality(existing_places) >= PlaceLimit
    THEN Raise("ProjectLimitReachedError")
    ELSE IF \E x \in existing_places : x.external_id = external_id
    THEN Raise("PlaceAlreadyExistsInProjectError")
    ELSE Ok(external_id)

\* variant of the check that lets every project go
delete_project_check_unprotected(loaded) == Ok(loaded)

\* delete_project between the SELECT and the delete
delete_project_check(loaded) ==
    IF \E x \in loaded : x.is_visited
    THEN Raise("ProjectHasVisitedPlacesError")
    ELSE Ok(loaded)

\* fastapi's answer to a raised HTTPException
HTTPException(status_code, detail) ==
    Response(status_code, "HTTPException", detail)

\* travel_router.create_travel_project and list_travel_projects: no
\* except clause
create_project_route(exc) ==
    IF exc = "HTTPException"
    THEN HTTPException(503, "Third-party API is currently unavailable")
    ELSE Unhandled(exc)

\* travel_router.get_travel_project and update_travel_project
project_route(exc) ==
    IF exc = "ProjectDoesNotExistError"
    THEN HTTPException(404, "Project not found")
    ELSE Unhandled(exc)

\* travel_router.delete_travel_project
delete_project_route(exc) ==
    IF exc = "ProjectDoesNotExistError"
    THEN HTTPException(404, "Project not found")
    ELSE IF exc = "ProjectHasVisitedPlacesError"
    THEN HTTPException(400, "Cannot delete project: some places are already marked as visited.")
    ELSE Unhandled(exc)

\* places_router.add_place
add_place_route(exc) ==
    CASE exc = "InvalidExternalPlaceError" ->
           HTTPException(400, "External ID not found in Art Institute API")
      [] exc = "ProjectLimitReachedError" ->
           HTTPException(400, "Project already has the maximum of 10 places")
      [] exc = "PlaceAlreadyExistsInProjectError" ->
           HTTPException(400, "This place is already in the project")
      [] exc = "HTTPException" ->
           HTTPException(503, "Third-party API is currently unavailable")
      [] OTHER -> Unhandled(exc)

\* places_router.get_place and update_place
place_route(exc) ==
    IF exc = "PlaceDoesNotExistError"
    THEN HTTPException(404, "Place not found")
    ELSE Unhandled(exc)

\* Depends(get_current_user): HTTPBearer refuses a request without
\* credentials, get_current_user resolves the others
resolve_credentials(token) ==
    IF token = None THEN Raise("HTTPException") ELSE get_current_user(token)

\* a route without the dependency resolves no caller
Unresolved == Raise("")

\* the answer to a request the dependency refused
Refused(auth) ==
    IF auth.exc = "HTTPException" THEN HTTPException(403, "Not authenticated")
    ELSE Unhandled(auth.exc)

\* an access token that expired before the model's first instant
Stale == [key |-> SECRET_KEY_ACCESS, user_id |-> 1, email |-> "a@x.com",
          exp |-> -1]

\* what a caller may send as credentials: nothing, an issued access token,
\* and tokens that fail each test of get_current_user
TravelCredentials ==
    {None} \cup {i.access_token : i \in issued}
        \cup {Forged, Stale, Stray(2), Stray(MaxUserId + 1)}

\* a body with one place more than the limit allows
Oversized == [name |-> "n1", places |-> [i \in 1..(PlaceLimit + 1) |-> "e1"]]

ProjectBodies ==
    {[name |-> "n1", places |-> ids] :
        ids \in UNION {[1..n -> ExternalIds] : n \in 0..MaxBodyPlaces}}
        \cup {Oversized}

\* the last value of the places sequence the model lets a request draw:
\* MaxPlaceId values beyond those of the seeded places
LastPlaceId ==
    MaxPlaceId + Cardinality({x \in places : x.external_id \in Range(Seed)})

\* the routes of places_router never look at the credentials: a caller
\* with none stands for every caller
NoCredentials == {None}

TravelRequest(op, token, auth, project_id, place_id, data) ==
    [op |-> op, token |-> token, auth |-> auth, project_id |-> project_id,
     place_id |-> place_id, data |-> data]

\* the request of slot p ends with response r; `ran` tells whether the
\* route's body was entered, `body` is what it returned
TravelEnd(p, request, r, ran, body) ==
    /\ pc' = [pc EXCEPT ![p] = "idle"]
    /\ req' = [req EXCEPT ![p] = NoReq]
    /\ txn' = [txn EXCEPT ![p] = NoTxn]
    /\ last' = [slot |-> p, req |-> request,
                resp |-> [r EXCEPT !.auth = request.auth],
                ran |-> ran, body |-> body]

\* the request of slot p goes on to its commit
TravelContinue(p, request, at, loaded) ==
    /\ pc' = [pc EXCEPT ![p] = at]
    /\ req' = [req EXCEPT ![p] = request]
    /\ txn' = [txn EXCEPT ![p] = [NoTxn EXCEPT !.snapshot = loaded]]
    /\ last' = None

\* the dependency has refused the request: the route's body is not entered
Denied(p, request) ==
    /\ TravelEnd(p, request, Refused(request.auth), FALSE, None)
    /\ UNCHANGED resources

\* what no route of the two resource routers touches
accounts == <<now, ticks, users, next_user_id, refresh_tokens, next_token_id,
              issued, alone>>

\* POST /projects/: the dependency, then create_project; the rows of the
\* project and of its places are flushed and committed together
CreateProject(p) ==
    /\ pc[p] = "idle"
    /\ \E token \in TravelCredentials :
        LET auth == resolve_credentials(token) IN
        IF ~auth.ok
        THEN Denied(p, TravelRequest("create_project", token, auth, 0, 0, None))
        ELSE \E body \in ProjectBodies, up \in BOOLEAN :
        LET request == TravelRequest("create_project", token, auth, 0, 0, body)
            r == create_project_check(body, up)
            n == Len(body.places) IN
        IF ~r.ok
        THEN /\ TravelEnd(p, request, create_project_route(r.exc), TRUE, None)
             /\ UNCHANGED resources
        ELSE /\ next_project_id <= MaxProjectId
             /\ next_place_id + n - 1 <= LastPlaceId
             /\ projects' = projects \cup
                    {[id |-> next_project_id, name |-> body.name]}
             /\ places' = places \cup
                    {PlaceModel(next_place_id + i - 1, next_project_id,
                                body.places[i]) : i \in 1..n}
             /\ next_project_id' = next_project_id + 1
             /\ next_place_id' = next_place_id + n
             /\ TravelEnd(p, request, Response(201, "", ""), TRUE,
                          next_project_id)
             /\ UNCHANGED minted
    /\ UNCHANGED accounts

\* GET /projects/
ListProjects(p) ==
    /\ pc[p] = "idle"
    /\ \E token \in TravelCredentials :
        LET auth == resolve_credentials(token)
            request == TravelRequest("list_projects", token, auth, 0, 0, None) IN
        IF ~auth.ok THEN Denied(p, request)
        ELSE /\ TravelEnd(p, request, Response(200, "", ""), TRUE,
                          [projects |-> projects, places |-> places])
             /\ UNCHANGED resources
    /\ UNCHANGED accounts

\* GET /projects/{project_id}
GetProject(p) ==
    /\ pc[p] = "idle"
    /\ \E token \in TravelCredentials :
        LET auth == resolve_credentials(token) IN
        IF ~auth.ok
        THEN Denied(p, TravelRequest("get_project", token, auth, 0, 0, None))
        ELSE \E project_id \in 1..MaxProjectId :
        LET request == TravelRequest("get_project", token, auth, project_id,
                                     0, None)
            r == get_project_by_id(project_id) IN
             /\ TravelEnd(p, request,
                          IF r.ok THEN Response(200, "", "")
                          ELSE project_route(r.exc),
                          TRUE, r.value)
             /\ UNCHANGED resources
    /\ UNCHANGED accounts

\* PATCH /projects/{project_id}: the dependency and update_project up to
\* its commit
UpdateProjectSelect(p) ==
    /\ pc[p] = "idle"
    /\ \E token \in TravelCredentials :
        LET auth == resolve_credentials(token) IN
        IF ~auth.ok
        THEN Denied(p, TravelRequest("update_project", token, auth, 0, 0, None))
        ELSE \E project_id \in 1..MaxProjectId, name \in Names :
        LET request == TravelRequest("update_project", token, auth,
                                     project_id, 0, [name |-> name])
            r == get_project_by_id(project_id) IN
        IF ~r.ok
        THEN /\ TravelEnd(p, request, project_route(r.exc), TRUE, None)
             /\ UNCHANGED resources
        ELSE /\ TravelContinue(p, request, "update_project_commit", {})
             /\ UNCHANGED resources
    /\ UNCHANGED accounts

\* update_project's commit: the UPDATE by primary key finds no row when
\* the project was deleted meanwhile (StaleDataError)
UpdateProjectCommit(p) ==
    /\ pc[p] = "update_project_commit"
    /\ LET id == req[p].project_id
           row == {x \in projects : x.id = id} IN
       IF row = {}
       THEN /\ TravelEnd(p, req[p], project_route("StaleDataError"), TRUE, None)
            /\ projects' = projects
       ELSE /\ projects' = (projects \ row) \cup
                   {[id |-> id, name |-> req[p].data.name]}
            /\ TravelEnd(p, req[p], Response(200, "", ""), TRUE, id)
    /\ UNCHANGED <<places, next_project_id, next_place_id, minted>>
    /\ UNCHANGED accounts

\* DELETE /projects/{project_id}: the dependency and delete_project up to
\* db.delete
DeleteProjectSelect(p) ==
    /\ pc[p] = "idle"
    /\ \E token \in TravelCredentials :
        LET auth == resolve_credentials(token) IN
        IF ~auth.ok
        THEN Denied(p, TravelRequest("delete_project", token, auth, 0, 0, None))
        ELSE \E project_id \in 1..MaxProjectId :
        LET request == TravelRequest("delete_project", token, auth,
                                     project_id, 0, None)
            r == get_project_by_id(project_id)
            c == IF r.ok THEN delete_project_check(r.value.places) ELSE r IN
        /\ IF ~c.ok
           THEN TravelEnd(p, request, delete_project_route(c.exc), TRUE, None)
           ELSE TravelContinue(p, request, "delete_project_commit", c.value)
        /\ UNCHANGED resources
    /\ UNCHANGED accounts

\* db.delete(project) and the commit: the session deletes the places it
\* loaded and the project, the foreign key's ON DELETE CASCADE the rest
DeleteProjectCommit(p) ==
    /\ pc[p] = "delete_project_commit"
    /\ projects' = {x \in projects : x.id # req[p].project_id}
    /\ places' = places \ PlacesOf(req[p].project_id)
    /\ TravelEnd(p, req[p], Response(204, "", ""), TRUE, None)
    /\ UNCHANGED <<next_project_id, next_place_id, minted>>
    /\ UNCHANGED accounts

\* POST /projects/{project_id}/places: add_place_to_project up to its
\* commit; the route declares no Depends(get_current_user)
AddPlaceSelect(p) ==
    /\ pc[p] = "idle"
    /\ \E token \in NoCredentials, project_id \in 1..MaxProjectId,
          external_id \in ExternalIds, up \in BOOLEAN :
        LET request == TravelRequest("add_place", token, Unresolved,
                                     project_id, 0, external_id)
            r == IF ~up THEN Raise("HTTPException")
                 ELSE IF ~validate_external_place(external_id)
                 THEN Raise("InvalidExternalPlaceError")
                 ELSE add_place_check(PlacesOf(project_id), external_id) IN
        IF ~r.ok THEN TravelEnd(p, request, add_place_route(r.exc), TRUE, None)
        ELSE /\ next_place_id <= LastPlaceId
             /\ TravelContinue(p, request, "add_place_commit",
                               PlacesOf(project_id))
    /\ UNCHANGED resources
    /\ UNCHANGED accounts

\* add_place_to_project's commit: the INSERT draws its id and violates the
\* foreign key when the project does not exist (IntegrityError)
AddPlaceCommit(p) ==
    /\ pc[p] = "add_place_commit"
    /\ next_place_id' = next_place_id + 1
    /\ IF get_project_by_id(req[p].project_id).ok
       THEN /\ places' = places \cup
                   {PlaceModel(next_place_id, req[p].project_id, req[p].data)}
            /\ TravelEnd(p, req[p], Response(201, "", ""), TRUE, next_place_id)
       ELSE /\ places' = places
            /\ TravelEnd(p, req[p], add_place_route("IntegrityError"), TRUE,
                         None)
    /\ UNCHANGED <<projects, next_project_id, minted>>
    /\ UNCHANGED accounts

\* GET /projects/{project_id}/places, without the dependency
ListPlaces(p) ==
    /\ pc[p] = "idle"
    /\ \E token \in NoCredentials, project_id \in 1..MaxProjectId :
        TravelEnd(p, TravelRequest("list_places", token, Unresolved,
                                   project_id, 0, None),
                  Response(200, "", ""), TRUE, PlacesOf(project_id))
    /\ UNCHANGED resources
    /\ UNCHANGED accounts

\* GET /places/{place_id}, without the dependency
GetPlace(p) ==
    /\ pc[p] = "idle"
    /\ \E token \in NoCredentials, place_id \in 1..MaxPlaceId :
        LET r == get_place_by_id(place_id) IN
        TravelEnd(p, TravelRequest("get_place", token, Unresolved, 0,
                                   place_id, None),
                  IF r.ok THEN Response(200, "", "") ELSE place_route(r.exc),
                  TRUE, r.value)
    /\ UNCHANGED resources
    /\ UNCHANGED accounts

\* PATCH /places/{place_id}, without the dependency: update_project_place
\* up to its commit
UpdatePlaceSelect(p) ==
    /\ pc[p] = "idle"
    /\ \E token \in NoCredentials, place_id \in 1..MaxPlaceId,
          is_visited \in BOOLEAN :
        LET request == TravelRequest("update_place", token, Unresolved, 0,
                                     place_id, [is_visited |-> is_visited])
            r == get_place_by_id(place_id) IN
        IF ~r.ok THEN TravelEnd(p, request, place_route(r.exc), TRUE, None)
        ELSE TravelContinue(p, request, "update_place_commit", {})
    /\ UNCHANGED resources
    /\ UNCHANGED accounts

\* update_project_place's commit: the UPDATE by primary key finds no row
\* when the place went with its project meanwhile (StaleDataError)
UpdatePlaceCommit(p) ==
    /\ pc[p] = "update_place_commit"
    /\ LET row == {x \in places : x.id = req[p].place_id} IN
       IF row = {}
       THEN /\ TravelEnd(p, req[p], place_route("StaleDataError"), TRUE, None)
            /\ places' = places
       ELSE /\ places' = (places \ row) \cup
                   {[x EXCEPT !.is_visited = req[p].data.is_visited] :
                        x \in row}
            /\ TravelEnd(p, req[p], Response(200, "", ""), TRUE,
                         req[p].place_id)
    /\ UNCHANGED <<projects, next_project_id, next_place_id, minted>>
    /\ UNCHANGED accounts

(* ---------------------------- store failures -------------------------- *)

\* Any awaited statement may be refused by the store (SQLAlchemyError).
\* get_db rolls the session back and re-raises; a handler's own except
\* clause, where there is one, comes first.

\* variant of the rollback in which the DELETE stays
login_rollback_partial(deleted) ==
    {r \in refresh_tokens : r.id \notin deleted}

\* login_user's except clause: db.rollback() undoes the DELETE and the
\* pending INSERT, the committed table is as it was
login_rollback(deleted) == refresh_tokens

\* create_new_user: the existence check is refused
RegisterSelectFault(p) ==
    /\ pc[p] = "idle"
    /\ next_user_id <= MaxUserId
    /\ \E e \in Emails, pw \in Passwords :
        End(p, Request("register", validate_corporate_email(e), pw, None, 0),
            register_route("SQLAlchemyError"), TRUE, "select")
    /\ UNCHANGED <<now, ticks, users, next_user_id, refresh_tokens,
                   next_token_id, issued>>
    /\ UNCHANGED resources

\* create_new_user: the commit is refused (the INSERT may have drawn its
\* id already); rollback, UserCreateException
RegisterCommitFault(p) ==
    /\ pc[p] = "register_commit"
    /\ \E drawn \in {0, 1} : next_user_id' = next_user_id + drawn
    /\ End(p, req[p], register_route("UserCreateException"), TRUE, "commit")
    /\ UNCHANGED <<now, ticks, users, refresh_tokens, next_token_id, issued>>
    /\ UNCHANGED resources

\* create_new_user: the commit succeeds and db.refresh(user), inside the
\* same try, is refused; the rollback finds nothing to undo
RegisterRefreshFault(p) ==
    /\ pc[p] = "register_commit"
    /\ get_user_by_email(req[p].email) = None
    /\ next_user_id' = next_user_id + 1
    /\ \E salt \in Salts :
        users' = users \cup
            {[id |-> next_user_id, email |-> req[p].email,
              hashed_password |-> hash_password(req[p].password, salt)]}
    /\ End(p, req[p], register_route("UserCreateException"), TRUE, "refresh")
    /\ UNCHANGED <<now, ticks, refresh_tokens, next_token_id, issued>>
    /\ UNCHANGED resources

\* login_user: the account lookup is refused
LoginSelectFault(p) ==
    /\ pc[p] = "idle"
    /\ \E e \in Emails, pw \in Passwords :
        End(p, Request("login", e, pw, None, 0),
            login_route("SQLAlchemyError"), TRUE, "select")
    /\ UNCHANGED <<now, ticks, users, next_user_id, refresh_tokens,
                   next_token_id, issued>>
    /\ UNCHANGED resources

\* login_user: the DELETE, outside the try block, is refused
LoginDeleteFault(p) ==
    /\ pc[p] \in {"login_delete", "login_wait"}
    /\ End(p, req[p], login_route("SQLAlchemyError"), alone[p], "delete")
    /\ UNCHANGED <<now, ticks, users, next_user_id, refresh_tokens,
                   next_token_id, issued>>
    /\ UNCHANGED resources

\* login_user: the commit is refused (the INSERT may have drawn its id
\* already); rollback, SessionExpiredError
LoginCommitFault(p) ==
    /\ pc[p] = "login_commit"
    /\ refresh_tokens' = login_rollback(txn[p].deleted)
    /\ \E drawn \in {0, 1} : next_token_id' = next_token_id + drawn
    /\ End(p, req[p], login_route("SessionExpiredError"), alone[p], "commit")
    /\ UNCHANGED <<now, ticks, users, next_user_id, issued>>
    /\ UNCHANGED resources

\* POST /logout: the SELECT of get_current_user is refused; the statement
\* is reached only with a token that decodes
LogoutFault(p) ==
    /\ pc[p] = "idle"
    /\ \E token \in PresentableAccess :
        /\ decode_access_token(token).ok
        /\ End(p, Request("logout", "", "", token, token.user_id),
               [Unhandled("SQLAlchemyError") EXCEPT
                    !.auth = Raise("SQLAlchemyError")],
               AloneNow(p, token.user_id), "select")
    /\ UNCHANGED <<now, ticks, users, next_user_id, refresh_tokens,
                   next_token_id, issued>>
    /\ UNCHANGED resources

\* refresh_token: the lookup is refused
RefreshSelectFault(p) ==
    /\ pc[p] = "idle"
    /\ \E token \in PresentableRefresh :
        End(p, Request("refresh", "", "", token, token.user_id),
            refresh_route("SQLAlchemyError"), AloneNow(p, token.user_id),
            "select")
    /\ UNCHANGED <<now, ticks, users, next_user_id, refresh_tokens,
                   next_token_id, issued>>
    /\ UNCHANGED resources

\* refresh_token: db.delete / db.commit inside the except clause is refused
RefreshDeleteFault(p) ==
    /\ pc[p] = "refresh_delete"
    /\ End(p, req[p], refresh_route("SQLAlchemyError"), alone[p], "delete")
    /\ UNCHANGED <<now, ticks, users, next_user_id, refresh_tokens,
                   next_token_id, issued>>
    /\ UNCHANGED resources

(* ---------------------------- specification --------------------------- *)

\* registration, from the empty database
NextRegister ==
    \E p \in Procs :
        \/ RegisterSelect(p)
        \/ RegisterCommit(p)

SpecRegister == InitEmpty /\ [][NextRegister]_vars

\* sessions of the registered accounts
Next ==
    \/ Tick
    \/ \E p \in Procs :
        \/ LoginSelect(p)
        \/ LoginDelete(p)
        \/ LoginResume(p)
        \/ LoginCommit(p)
        \/ Logout(p)
        \/ RefreshSelect(p)
        \/ RefreshDelete(p)

Spec == Init /\ [][Next]_vars

\* the slot of the specifications that serve one request at a time
Solo == "r1"

\* a store that may refuse any statement: the database with one account
\* registered
InitFaults ==
    /\ users = {u \in Registered : u.id = 1}
    /\ next_user_id = MaxUserId
    /\ Sessions

NextFaults ==
    \/ Tick
    \/ RegisterSelect(Solo)
    \/ RegisterCommit(Solo)
    \/ LoginSelect(Solo)
    \/ LoginDelete(Solo)
    \/ LoginCommit(Solo)
    \/ Logout(Solo)
    \/ RefreshSelect(Solo)
    \/ RefreshDelete(Solo)
    \/ RegisterSelectFault(Solo)
    \/ RegisterCommitFault(Solo)
    \/ RegisterRefreshFault(Solo)
    \/ LoginSelectFault(Solo)
    \/ LoginDeleteFault(Solo)
    \/ LoginCommitFault(Solo)
    \/ LogoutFault(Solo)
    \/ RefreshSelectFault(Solo)
    \/ RefreshDeleteFault(Solo)

SpecFaults == InitFaults /\ [][NextFaults]_vars

\* the two accounts, of which the first has logged in at the first instant
InitTravel ==
    /\ users = Registered
    /\ next_user_id = MaxUserId + 1
    /\ now = 0
    /\ ticks = 0
    /\ LET user == CHOOSE u \in Registered : u.id = 1
           i == login_issue(user) IN
       /\ refresh_tokens = {[i.db_token EXCEPT !.id = 1]}
       /\ issued = {[rid |-> 1, user_id |-> user.id,
                     access_token |-> i.access_token,
                     refresh_token |-> i.refresh_token]}
    /\ next_token_id = 2
    /\ pc = [p \in Procs |-> "idle"]
    /\ req = [p \in Procs |-> NoReq]
    /\ txn = [p \in Procs |-> NoTxn]
    /\ alone = [p \in Procs |-> TRUE]
    /\ last = None
    /\ projects = {}
    /\ places = {}
    /\ next_project_id = 1
    /\ next_place_id = 1
    /\ minted = {}

NextTravel ==
    \/ CreateProject(Solo)
    \/ ListProjects(Solo)
    \/ GetProject(Solo)
    \/ UpdateProjectSelect(Solo)
    \/ UpdateProjectCommit(Solo)
    \/ DeleteProjectSelect(Solo)
    \/ DeleteProjectCommit(Solo)
    \/ AddPlaceSelect(Solo)
    \/ AddPlaceCommit(Solo)
    \/ ListPlaces(Solo)
    \/ GetPlace(Solo)
    \/ UpdatePlaceSelect(Solo)
    \/ UpdatePlaceCommit(Solo)

SpecTravel == InitTravel /\ [][NextTravel]_vars

\* the life of a session: Register, Logout and Refresh one at a time,
\* Logins two at a time, from the database that holds the first account
NextLifecycle ==
    \/ Tick
    \/ RegisterSelect(Solo)
    \/ RegisterCommit(Solo)
    \/ Logout(Solo)
    \/ RefreshSelect(Solo)
    \/ RefreshDelete(Solo)
    \/ \E p \in Procs :
        \/ LoginSelect(p)
        \/ LoginDelete(p)
        \/ LoginResume(p)
        \/ LoginCommit(p)

SpecLifecycle == InitFaults /\ [][NextLifecycle]_vars

\* the first account logged in, and one project that holds a place fewer
\* than the limit
InitPlaces ==
    /\ users = Registered
    /\ next_user_id = MaxUserId + 1
    /\ now = 0
    /\ ticks = 0
    /\ LET user == CHOOSE u \in Registered : u.id = 1
           i == login_issue(user) IN
       /\ refresh_tokens = {[i.db_token EXCEPT !.id = 1]}
       /\ issued = {[rid |-> 1, user_id |-> user.id,
                     access_token |-> i.access_token,
                     refresh_token |-> i.refresh_token]}
    /\ next_token_id = 2
    /\ pc = [p \in Procs |-> "idle"]
    /\ req = [p \in Procs |-> NoReq]
    /\ txn = [p \in Procs |-> NoTxn]
    /\ alone = [p \in Procs |-> TRUE]
    /\ last = None
    /\ projects = {[id |-> 1, name |-> "n1"]}
    /\ places = {PlaceModel(i, 1, Seed[i]) : i \in 1..Len(Seed)}
    /\ next_project_id = 2
    /\ next_place_id = Len(Seed) + 1
    /\ minted = {}

\* projects created and places added, two requests at a time
NextPlaces ==
    \E p \in Procs :
        \/ CreateProject(p)
        \/ AddPlaceSelect(p)
        \/ AddPlaceCommit(p)

SpecPlaces == InitPlaces /\ [][NextPlaces]_vars

(* ------------------------------ passwords ----------------------------- *)

\* stored values handed to verify_password: the digests of the model's
\* passwords, and one that is no digest
StoredDigests ==
    {hash_password(pw, salt) : pw \in Passwords, salt \in Salts}
        \cup {Malformed}

\* verify_password called with a password and a stored value
VerifyPassword ==
    /\ \E pw \in Passwords, hashed \in StoredDigests :
        last' = [slot |-> Solo,
                 req |-> [op |-> "verify", password |-> pw,
                          hashed_password |-> hashed],
                 resp |-> verify_password(pw, hashed)]
    /\ UNCHANGED <<pc, req, txn>>
    /\ UNCHANGED accounts
    /\ UNCHANGED resources

\* registrations followed by logins, from the empty database, and the
\* hasher called directly
NextPassword ==
    \/ RegisterSelect(Solo)
    \/ RegisterCommit(Solo)
    \/ LoginSelect(Solo)
    \/ LoginDelete(Solo)
    \/ LoginCommit(Solo)
    \/ VerifyPassword

SpecPassword == InitEmpty /\ [][NextPassword]_vars

(* --------------------------- the codec alone -------------------------- *)

\* the two categories of token
Kinds == {"access", "refresh"}

\* lifetimes handed to the codec, in seconds
Lifetimes == {0, 1}

\* the claims the callers of the codec pass
TokenData == [user_id |-> 1, email |-> "a@x.com"]

\* create_access_token / create_refresh_token called with an explicit
\* lifetime
IssueToken ==
    /\ Cardinality(minted) < MaxMinted
    /\ \E kind \in Kinds, ttl \in Lifetimes :
        minted' = minted \cup
            {[kind |-> kind, at |-> now, ttl |-> ttl,
              token |-> IF kind = "access"
                        THEN create_access_token(TokenData, ttl)
                        ELSE create_refresh_token(TokenData, ttl)]}
    /\ last' = None
    /\ UNCHANGED <<pc, req, txn, projects, places, next_project_id,
                   next_place_id>>
    /\ UNCHANGED accounts

\* decode_access_token / decode_refresh_token called with a token the
\* codec made
DecodeToken ==
    /\ \E kind \in Kinds, m \in minted :
        last' = [slot |-> Solo,
                 req |-> [op |-> "decode", kind |-> kind, minted |-> m,
                          token |-> m.token],
                 resp |-> IF kind = "access"
                          THEN decode_access_token(m.token)
                          ELSE decode_refresh_token(m.token)]
    /\ UNCHANGED <<pc, req, txn>>
    /\ UNCHANGED accounts
    /\ UNCHANGED resources

\* the codec called directly, and its tokens presented to Logout and to
\* Refresh, while account 1 has a session
NextCodec ==
    \/ Tick
    \/ IssueToken
    \/ DecodeToken
    \/ Logout(Solo)
    \/ RefreshSelect(Solo)
    \/ RefreshDelete(Solo)

SpecCodec == InitTravel /\ [][NextCodec]_vars

(* ------------------------------- properties --------------------------- *)

\* the request that has just ended was a `op`
Ended(op) == last # None /\ last.req.op = op

LogoutMessage == "Successfully logged out from all devices"

\* C1: in every committed state of the store an account owns at most one
\* refresh-token record, whatever Logins, Logouts and Refreshes interleave.
C1_AtMostOneRecordPerAccount ==
    \A u \in users : Cardinality(TokensOf(u.id)) <= 1

\* C2: when a Login for an account has succeeded with no other request for
\* that account running beside it, the account owns exactly one refresh
\* record, whatever it owned before, and the record holds the refresh token
\* the Login returned.
C2_LoginLeavesOneRecord ==
    (Ended("login") /\ last.resp.status = 200 /\ last.alone)
        => \E r \in refresh_tokens :
               /\ TokensOf(last.req.uid) = {r}
               /\ r.token = last.resp.refresh_token

\* a Login that ran alone has replaced two records of its account
C2_Witness ==
    /\ Ended("login") /\ last.resp.status = 200 /\ last.alone
    /\ Cardinality(last.deleted) = 2

\* C3: a Logout whose caller was resolved by get_current_user (so the
\* account owned a refresh record) answers 200 with the confirmation
\* message, leaves the account without refresh records, and no refresh
\* token issued to the account is accepted by Refresh afterwards.
C3_LogoutEndsSession ==
    (Ended("logout") /\ last.resp.auth.ok)
        => /\ last.resp.status = 200
           /\ last.resp.detail = LogoutMessage
           /\ TokensOf(last.req.uid) = {}
           /\ \A i \in issued :
                  i.user_id = last.req.uid
                      => refresh_token(i.refresh_token).next # "return"

\* C4 as stated: Refresh succeeds for a token only if a stored record holds
\* that token and the record's expires_at is later than the current time.
C4_RefreshNeedsUnexpiredRecord ==
    (Ended("refresh") /\ last.resp.status = 200)
        => \E r \in refresh_tokens :
               r.token = last.req.token /\ r.expires_at > now

\* C4 as amended: Refresh succeeds for a token only if a stored record
\* holds that token and the expiry embedded in the token is not before the
\* current whole second; the record's expires_at is then less than one
\* second in the past.
C4_RefreshNeedsUnexpiredToken ==
    (Ended("refresh") /\ last.resp.status = 200)
        => \E r \in refresh_tokens :
               /\ r.token = last.req.token
               /\ Sec(now) <= last.req.token.exp
               /\ r.expires_at + TicksPerSecond > now

\* a Refresh has succeeded at a time not before the record's expires_at
C4_Witness ==
    /\ Ended("refresh") /\ last.resp.status = 200
    /\ \E r \in refresh_tokens :
           r.token = last.req.token /\ r.expires_at <= now

\* C5: when a Login for an account has succeeded (running alone, after the
\* earlier Logins for the account had ended), Refresh accepts none of the
\* refresh tokens those earlier Logins returned.
C5_LoginInvalidatesEarlierTokens ==
    (Ended("login") /\ last.resp.status = 200 /\ last.alone)
        => \A i \in issued :
               (i.user_id = last.req.uid /\ i.rid # next_token_id - 1)
                   => refresh_token(i.refresh_token).next # "return"

\* C6: a Refresh ends with InvalidRefreshTokenError when no stored record
\* holds the presented token, and the store is then unchanged; it ends with
\* InvalidRefreshTokenError too when the token fails codec validation
\* (foreign signature, or expired), and the store then loses exactly the
\* record holding the token, so that no record holds it afterwards.
C6_InvalidTokenRefused ==
    [][Ended("refresh")' =>
        LET t == last'.req.token
            stored == {r \in refresh_tokens : r.token = t}
            invalid == t.key # SECRET_KEY_REFRESH \/ t.exp < Sec(now) IN
        (stored = {} \/ invalid)
            => /\ last'.resp.exc = "InvalidRefreshTokenError"
               /\ Cardinality(stored) <= 1
               /\ refresh_tokens' = refresh_tokens \ stored
    ]_vars

\* C7: get_current_user raises InvalidTokenError for a token not signed
\* with the access secret, TokenExpiredError for an access token past its
\* expiry, UserNotFoundException when no account has the decoded id,
\* UserAreLoggedOutException when the account owns no refresh record, and
\* returns the account id exactly when none of these holds.
C7_ResolveCurrentUser ==
    [][Ended("logout")' =>
        LET t == last'.req.token
            r == last'.resp.auth
            signed == t.key = SECRET_KEY_ACCESS
            fresh == t.exp >= Sec(now)
            known == \E u \in users : u.id = t.user_id
            session == \E x \in refresh_tokens : x.user_id = t.user_id IN
        /\ ~signed => r = Raise("InvalidTokenError")
        /\ (signed /\ ~fresh) => r = Raise("TokenExpiredError")
        /\ (signed /\ fresh /\ ~known) => r = Raise("UserNotFoundException")
        /\ (signed /\ fresh /\ known /\ ~session)
               => r = Raise("UserAreLoggedOutException")
        /\ (signed /\ fresh /\ known /\ session)
               => (r.ok /\ r.value.id = t.user_id)
    ]_vars

\* get_current_user has refused an unexpired access token of an account
\* that owns no refresh record
C7_Witness ==
    /\ Ended("logout")
    /\ last.resp.auth = Raise("UserAreLoggedOutException")
    /\ \E u \in users : u.id = last.req.token.user_id

\* C8: every failure of Refresh reaches the caller as HTTP 401.
C8_RefreshFailureIsUnauthorized ==
    (Ended("refresh") /\ last.resp.status # 200) => last.resp.status = 401

\* C9: a Logout presenting an unexpired access token of an account that
\* owns no refresh record answers 200 with the confirmation message.
C9_LogoutIdempotent ==
    (Ended("logout")
        /\ last.req.token.key = SECRET_KEY_ACCESS
        /\ last.req.token.exp >= Sec(now)
        /\ (\E u \in users : u.id = last.req.uid)
        /\ TokensOf(last.req.uid) = {})
        => /\ last.resp.status = 200
           /\ last.resp.detail = LogoutMessage

\* the account an address names exactly, if any
AccountOf(email) == {u \in users : u.email = email}

\* C10: a Login with an address no account has and a Login with a
\* registered address and another password than the account's end alike:
\* UserNotFoundException, HTTP 400, "Incorrect email or password", and no
\* token.
C10_LoginFailuresAlike ==
    (Ended("login")
        /\ \A u \in AccountOf(last.req.email) :
               u.hashed_password.digest[2] # last.req.password)
        => /\ last.resp.exc = "UserNotFoundException"
           /\ last.resp.status = 400
           /\ last.resp.detail = "Incorrect email or password"
           /\ last.resp.access_token = None
           /\ last.resp.refresh_token = None

\* a Login with a registered address and a wrong password has been refused
C10_Witness ==
    /\ Ended("login")
    /\ last.resp.status = 400
    /\ AccountOf(last.req.email) # {}

\* C11: when the store refuses a statement of a Register, Login, Logout or
\* Refresh, the request ends with one of the domain's own exceptions, not
\* with the store's, and the committed tables are what they were.
C11_StoreFailureIsDomainError ==
    [][(last' # None /\ last'.fault # "")
        => /\ last'.resp.exc \in BaseUserException \cup BaseSecurityException
           /\ users' = users
           /\ refresh_tokens' = refresh_tokens
    ]_vars

\* C12: when the commit that persists a Login's refresh record is refused,
\* the Login ends with SessionExpiredError, hands out no token, and (no
\* other request for the account having run beside it) the account owns
\* exactly the refresh records it owned when the Login began.
C12_FailedPersistRollsBack ==
    (Ended("login") /\ last.fault = "commit")
        => /\ last.resp.exc = "SessionExpiredError"
           /\ last.resp.access_token = None
           /\ last.resp.refresh_token = None
           /\ last.alone => TokensOf(last.req.uid) = last.before

\* a Login whose commit was refused had found a record to replace
C12_Witness ==
    /\ Ended("login") /\ last.fault = "commit" /\ last.alone
    /\ last.before # {}

\* the refresh token t is accepted by Refresh
Accepted(t) == refresh_token(t).next = "return"

\* C13: a successful Refresh returns an access token and no refresh token
\* and leaves both tables as they were, so that the presented token is
\* accepted again right after; and a refresh token that is accepted stays
\* accepted over every step except the passing of time, a successful Login
\* and a Logout.
C13_RefreshKeepsStore ==
    [][/\ (Ended("refresh")' /\ last'.resp.status = 200)
            => /\ refresh_tokens' = refresh_tokens
               /\ users' = users
               /\ last'.resp.access_token # None
               /\ last'.resp.refresh_token = None
               /\ Accepted(last.req.token)'
       /\ \A i \in issued :
              (Accepted(i.refresh_token) /\ ~Accepted(i.refresh_token)')
                  => \/ now' # now
                     \/ Ended("login")' /\ last'.resp.status = 200
                     \/ Ended("logout")'
    ]_vars

\* a Refresh has succeeded some time after the Login
C13_Witness ==
    /\ Ended("refresh") /\ last.resp.status = 200
    /\ now > 0

\* a route of the resource routers has ended
EndedResource == last # None /\ "ran" \in DOMAIN last

\* C14: the body of a project or place route runs only in a request whose
\* caller get_current_user has resolved; a request that carries no access
\* token get_current_user accepts reads and changes nothing.
C14_ResourcesRequireCurrentUser ==
    EndedResource =>
        /\ (last.ran => last.resp.auth.ok)
        /\ (~resolve_credentials(last.req.token).ok => ~last.ran)

\* the accounts whose stored address is the lower-cased form of `email` and
\* whose password is `password`
Holders(email, password) ==
    {u \in users : /\ u.email = Lower(email)
                   /\ u.hashed_password.digest[2] = password}

\* C15: a Login with the password of an account and an address whose
\* lower-cased form is the account's stored address succeeds: it ends with
\* HTTP 200 and both tokens.
C15_LoginNormalizesEmail ==
    (Ended("login") /\ Holders(last.req.email, last.req.password) # {})
        => /\ last.resp.status = 200
           /\ last.resp.access_token # None
           /\ last.resp.refresh_token # None

\* no two accounts share a case-normalised address
UniqueEmails ==
    \A u, v \in users : Lower(u.email) = Lower(v.email) => u = v

\* the step ends a Register whose normalised address an account already
\* held before the step
RegisterOfHeldEmail ==
    /\ Ended("register")'
    /\ \E u \in users : Lower(u.email) = Lower(last'.req.email)

\* C16 as stated: no two accounts share a case-normalised address, and a
\* Register whose normalised address is already held, were it committed
\* by a concurrent Register after this one's existence check, fails with
\* UserAlreadyExistsException and creates no account.
C16_DuplicateRegisterAlreadyExists ==
    [][/\ UniqueEmails'
       /\ RegisterOfHeldEmail
            => /\ last'.resp.exc = "UserAlreadyExistsException"
               /\ users' = users]_vars

\* C16 amended: no two accounts share a case-normalised address, and a
\* Register whose normalised address is already held creates no account
\* and ends with HTTP 400: with UserAlreadyExistsException when the
\* existence check saw the account, with UserCreateException when the
\* account was committed between the check and this request's commit.
C16_DuplicateRegisterRefused ==
    [][/\ UniqueEmails'
       /\ RegisterOfHeldEmail
            => /\ last'.resp.exc =
                      IF pc[last'.slot] = "idle"
                      THEN "UserAlreadyExistsException"
                      ELSE "UserCreateException"
               /\ last'.resp.status = 400
               /\ users' = users]_vars

\* a Register has lost the race for its address: the address was free at
\* its check and is held at its commit
C16_Witness ==
    /\ Ended("register")
    /\ last.resp.exc = "UserCreateException"
    /\ \E u \in users : u.email = last.req.email

\* the Logins that handed out refresh token `t`
IssuedWith(t) == {i \in issued : i.refresh_token = t}

\* C17: the access token a successful Refresh returns differs from the
\* access token of every Login that issued the presented refresh token,
\* whenever after that Login the Refresh is performed.
C17_RefreshedAccessTokenDiffers ==
    (Ended("refresh") /\ last.resp.status = 200)
        => \A i \in IssuedWith(last.req.token) :
               last.resp.access_token # i.access_token

\* the records that hold token string `t`
StoredAs(t) == {r \in refresh_tokens : r.token = t}

\* C18: a Refresh that presents a stored refresh token the codec accepts
\* succeeds whatever other request is in flight, another Refresh of the
\* same token included: it returns an access token and leaves the record
\* in the store; a Refresh removes a record only when the codec rejects
\* that record's token.
C18_ConcurrentRefreshSafe ==
    [][Ended("refresh")' =>
         /\ (StoredAs(last'.req.token) # {}
                 /\ decode_refresh_token(last'.req.token).ok)
              => /\ last'.resp.status = 200
                 /\ last'.resp.access_token # None
                 /\ refresh_tokens' = refresh_tokens
         /\ \A r \in refresh_tokens \ refresh_tokens' :
                ~decode_refresh_token(r.token).ok]_vars

\* the tokens create_refresh_token has made, and those
\* create_access_token has made
RefreshTokens ==
    {m.token : m \in {n \in minted : n.kind = "refresh"}}
        \cup {i.refresh_token : i \in issued}
AccessTokens ==
    {m.token : m \in {n \in minted : n.kind = "access"}}
        \cup {i.access_token : i \in issued}

\* C19: decode_access_token rejects every token create_refresh_token made
\* with InvalidTokenError and decode_refresh_token rejects every token
\* create_access_token made with InvalidTokenError, expired or not; a
\* request that presents a refresh token as its bearer token resolves no
\* current user, and a Refresh that presents an access token returns no
\* access token.
C19_TokenCategoriesIndependent ==
    /\ \A t \in RefreshTokens :
           /\ decode_access_token(t) = Raise("InvalidTokenError")
           /\ get_current_user(t) = Raise("InvalidTokenError")
    /\ \A t \in AccessTokens :
           /\ decode_refresh_token(t) = Raise("InvalidTokenError")
           /\ refresh_token(t).next # "return"
    /\ (Ended("decode") /\ last.req.kind # last.req.minted.kind)
          => last.resp = Raise("InvalidTokenError")
    /\ (Ended("logout") /\ last.req.token \in RefreshTokens)
          => /\ last.resp.auth = Raise("InvalidTokenError")
             /\ last.resp.status # 200
    /\ (Ended("refresh") /\ last.req.token \in AccessTokens)
          => /\ last.resp.status # 200
             /\ last.resp.access_token = None

\* an unexpired refresh token of the account that has a session has been
\* presented as bearer token and resolved no user
C19_Witness ==
    /\ Ended("logout")
    /\ last.req.token \in RefreshTokens
    /\ decode_refresh_token(last.req.token).ok
    /\ TokensOf(last.req.token.user_id) # {}
    /\ ~last.resp.auth.ok

\* C20: a token issued at time t with lifetime ttl >= 0 embeds the expiry
\* t + ttl; the decoder of its category accepts it at every time up to
\* t + ttl and raises TokenExpiredError at every later time.
C20_ExpiryIsIssueTimePlusTtl ==
    (Ended("decode") /\ last.req.kind = last.req.minted.kind)
        => LET m == last.req.minted
               expiry == m.at + m.ttl * TicksPerSecond IN
           /\ m.token.exp * TicksPerSecond = expiry
           /\ last.resp.ok <=> now <= expiry
           /\ ~last.resp.ok => last.resp = Raise("TokenExpiredError")

\* the accounts a Login names by their stored address and password
Owners(email, password) ==
    {u \in AccountOf(email) : u.hashed_password.digest[2] = password}

\* a Login with the stored address and the password of an account has
\* ended with HTTP 200, the account owns a record and get_current_user
\* resolves the returned access token to it
LoginEstablishesSession ==
    (Ended("login") /\ Owners(last.req.email, last.req.password) # {})
        => /\ last.resp.status = 200
           /\ \A u \in Owners(last.req.email, last.req.password) :
                  /\ TokensOf(u.id) # {}
                  /\ get_current_user(last.resp.access_token)
                         = Ok([type |-> "int", id |-> u.id])

RegisteredAs(email, password) ==
    {u \in users : /\ u.email = validate_corporate_email(email)
                   /\ verify_password(password, u.hashed_password)}

\* C22: once Register(e, p) has succeeded, a Login(e, p) succeeds, and a
\* Login(e, q) with another password q ends with UserNotFoundException,
\* HTTP 400 and no token; verify_password answers false for a stored value
\* that is no digest.
C22_PasswordRoundTrip ==
    /\ (Ended("login")
            /\ RegisteredAs(last.req.email, last.req.password) # {})
          => /\ last.resp.status = 200
             /\ last.resp.access_token # None
    /\ (Ended("login")
            /\ \E q \in Passwords \ {last.req.password} :
                   RegisteredAs(last.req.email, q) # {})
          => /\ last.resp.exc = "UserNotFoundException"
             /\ last.resp.status = 400
             /\ last.resp.access_token = None
    /\ (Ended("verify") /\ last.req.hashed_password = Malformed)
          => last.resp = FALSE

\* C23: no project ever holds more than 10 places, whatever create_project
\* and add_place_to_project requests interleave; an add_place_to_project
\* for a project that holds 10 places ends with ProjectLimitReachedError
\* (HTTP 400) and a create_project with more than 10 places raises
\* ProjectLimitReachedError, and neither persists anything.
C23_PlaceLimit ==
    [][/\ \A x \in projects' : Cardinality(PlacesOf(x.id)') <= PlaceLimit
       /\ (EndedResource' /\ last'.req.op = "add_place"
              /\ Cardinality(PlacesOf(last'.req.project_id)) >= PlaceLimit
              /\ validate_external_place(last'.req.data)
              /\ last'.resp.status # 503)
            => /\ last'.resp.status = 400
               /\ last'.resp.detail
                      = "Project already has the maximum of 10 places"
               /\ places' = places
       /\ (EndedResource' /\ last'.req.op = "create_project"
              /\ last'.ran
              /\ Len(last'.req.data.places) > PlaceLimit)
            => /\ last'.resp.exc = "ProjectLimitReachedError"
               /\ places' = places
               /\ projects' = projects]_vars

\* no project holds two places with the same external_id
NoDuplicatePlace ==
    \A x, y \in places :
        (x.project_id = y.project_id /\ x.external_id = y.external_id)
            => x = y

\* C24: no project ever holds two places with the same external_id,
\* whatever create_project and add_place_to_project requests interleave;
\* an add_place_to_project of an external_id the project (not yet full)
\* already holds ends with PlaceAlreadyExistsInProjectError (HTTP 400) and
\* a create_project whose body (of at most 10 places) repeats an
\* external_id raises PlaceAlreadyExistsInProjectError, and neither
\* persists anything.
C24_NoDuplicatePlace ==
    [][/\ NoDuplicatePlace'
       /\ (EndedResource' /\ last'.req.op = "add_place"
              /\ Cardinality(PlacesOf(last'.req.project_id)) < PlaceLimit
              /\ \E x \in PlacesOf(last'.req.project_id) :
                     x.external_id = last'.req.data
              /\ last'.resp.status # 503)
            => /\ last'.resp.status = 400
               /\ last'.resp.detail = "This place is already in the project"
               /\ places' = places
       /\ (EndedResource' /\ last'.req.op = "create_project"
              /\ last'.ran
              /\ Len(last'.req.data.places) <= PlaceLimit
              /\ Len(last'.req.data.places)
                     # Cardinality(Range(last'.req.data.places)))
            => /\ last'.resp.exc = "PlaceAlreadyExistsInProjectError"
               /\ places' = places
               /\ projects' = projects]_vars

\* every place belongs to a project of the table
PlacesHaveProject ==
    \A x \in places : \E pr \in projects : pr.id = x.project_id

\* the step ends a delete_project request whose caller was resolved
EndsDelete ==
    /\ EndedResource'
    /\ last'.req.op = "delete_project"
    /\ last'.ran

\* C25: delete_project for a project with a visited place ends with
\* ProjectHasVisitedPlacesError (HTTP 400) and changes neither table; for a
\* project without a visited place it removes the project and every place
\* of it; for an unknown id it ends with ProjectDoesNotExistError (HTTP
\* 404); and no place ever refers to a project that is not in the table.
C25_DeleteProtection ==
    [][/\ PlacesHaveProject'
       /\ EndsDelete =>
            LET id == last'.req.project_id
                r == get_project_by_id(id) IN
            IF ~r.ok
            THEN /\ last'.resp.status = 404
                 /\ last'.resp.detail = "Project not found"
                 /\ projects' = projects /\ places' = places
            ELSE IF \E x \in r.value.places : x.is_visited
            THEN /\ last'.resp.status = 400
                 /\ last'.resp.detail = "Cannot delete project: some places are already marked as visited."
                 /\ projects' = projects /\ places' = places
            ELSE /\ last'.resp.status = 204
                 /\ projects' = {x \in projects : x.id # id}
                 /\ places' = {x \in places : x.project_id # id}]_vars

\* the deletion of a project with a visited place has been refused
C25_Witness ==
    /\ EndedResource
    /\ last.req.op = "delete_project"
    /\ last.resp.status = 400
    /\ \E x \in PlacesOf(last.req.project_id) : x.is_visited

\* access token t carries the access signature and has not expired
SignedAndFresh(t) == t.key = SECRET_KEY_ACCESS /\ t.exp >= Sec(now)

\* the account of token t exists and owns a refresh record now
HasSessionNow(t) ==
    /\ \E u \in users : u.id = t.user_id
    /\ TokensOf(t.user_id) # {}

\* C26: get_current_user accepts a correctly signed, unexpired access
\* token exactly when its account exists and owns a refresh record at that
\* moment, whichever Login issued the token and whichever record it was
\* issued with: this holds of every access token handed out, and of every
\* token a Logout request presented.
C26_AccessTokenNotBoundToSession ==
    [][/\ \A i \in issued' :
              SignedAndFresh(i.access_token)'
                  => (get_current_user(i.access_token).ok'
                          <=> HasSessionNow(i.access_token)')
       /\ (Ended("logout")' /\ SignedAndFresh(last'.req.token))
            => (last'.resp.auth.ok <=> HasSessionNow(last'.req.token))]_vars

\* a Logout request presented an access token whose Login's record is no
\* longer in the store, after a later Login of the account, and its
\* caller was resolved
C26_Witness ==
    /\ Ended("logout")
    /\ last.resp.auth.ok
    /\ \E i \in issued : i.access_token = last.req.token
    /\ \A i \in issued :
           i.access_token = last.req.token
               => i.rid \notin RowIds(refresh_tokens)

\* C27: a Login that names no account, or an account with another
\* password, ends with HTTP 400 and no token and leaves both tables as
\* they were: every account, the named one included, owns exactly the
\* refresh records it owned before.
C27_FailedLoginKeepsStore ==
    [][(Ended("login")'
          /\ Owners(last'.req.email, last'.req.password) = {})
        => /\ last'.resp.status = 400
           /\ last'.resp.refresh_token = None
           /\ refresh_tokens' = refresh_tokens
           /\ users' = users]_vars

\* a Login with a wrong password has been refused while the account it
\* names owns a refresh record
C27_Witness ==
    /\ Ended("login")
    /\ last.resp.status = 400
    /\ \E u \in AccountOf(last.req.email) :
           /\ u.hashed_password.digest[2] # last.req.password
           /\ TokensOf(u.id) # {}

\* Refresh accepts the refresh token of the issued pair `i` and
\* get_current_user accepts its access token
PairAccepted(i) ==
    /\ refresh_token(i.refresh_token).next = "return"
    /\ get_current_user(i.access_token).ok

\* C28: the step that ends a Login or a Logout for account A adds and
\* removes refresh records of A only: every other account B owns the same
\* records after it as before, and each token pair of B that Refresh and
\* get_current_user accepted before the step they accept after it.
C28_OtherAccountsUntouched ==
    [][(Ended("login")' \/ Ended("logout")')
        => LET uid == last'.req.uid IN
           /\ \A r \in (refresh_tokens \ refresh_tokens')
                        \cup (refresh_tokens' \ refresh_tokens) :
                  r.user_id = uid
           /\ \A u \in users :
                  u.id # uid => TokensOf(u.id)' = TokensOf(u.id)
           /\ \A i \in issued :
                  (i.user_id # uid /\ PairAccepted(i)) => PairAccepted(i)']_vars

\* a Login of one account has replaced that account's record while
\* another account owns a record and its tokens are accepted
C28_Witness ==
    /\ Ended("login")
    /\ last.resp.status = 200
    /\ last.deleted # {}
    /\ \E i \in issued : i.user_id # last.req.uid /\ PairAccepted(i)

\* the stored records the presented refresh token matches
MatchedRecords(token) == {r \in refresh_tokens : r.token = token}

\* C29: the access token a successful Refresh returns carries the id and
\* the email of the account that owns the stored record the presented
\* token matches, and get_current_user on it returns the id of that
\* account.
C29_RefreshKeepsIdentity ==
    (Ended("refresh") /\ last.resp.status = 200)
        => /\ MatchedRecords(last.req.token) # {}
           /\ \A r \in MatchedRecords(last.req.token) :
                  /\ last.resp.access_token.user_id = r.user_id
                  /\ \E u \in users :
                         /\ u.id = r.user_id
                         /\ last.resp.access_token.email = u.email
                  /\ get_current_user(last.resp.access_token)
                         = Ok([type |-> "int", id |-> r.user_id])

\* a Refresh has succeeded for the second account while the first
\* account owns a record too
C29_Witness ==
    /\ Ended("refresh")
    /\ last.resp.status = 200
    /\ last.resp.access_token.user_id = 2
    /\ TokensOf(1) # {}


====
